---------------------------- MODULE Spec2Model ----------------------------
(***************************************************************************)
(* A model of src/student_code.py: SortableDigraph, TraversableDigraph and *)
(* DAG.  One graph object is modelled; its class is fixed at construction. *)
(* A Python dict is modelled as a function plus, for adj, the sequence of  *)
(* its keys in insertion order; a list is a sequence; None is "None".      *)
(***************************************************************************)
EXTENDS Integers, Sequences, FiniteSets, TLC

VARIABLES
    cls,            \* class of the graph object: "TraversableDigraph" or "DAG"
    adj_keys,       \* keys of self.adj, in dict insertion order
    adj,            \* self.adj: node -> list of successors
    node_data,      \* self.node_data: node -> payload
    edge_weights,   \* self.edge_weights: <<u, v>> -> weight
    ret,            \* the last call made on the object and its outcome
    seen,           \* history: identifiers passed to add_node/add_edge, first-seen order
    created,        \* history: identifiers passed to add_node or to an accepted add_edge
    gens            \* the live generator objects returned by dfs()/bfs()

vars == <<cls, adj_keys, adj, node_data, edge_weights, ret, seen, created, gens>>

-----------------------------------------------------------------------------
\* Bounds of the model.

\* Identifiers the callers of the mutation specification use.
Nodes == {"A", "B", "C"}
\* Identifiers used by the traversal specifications.
TravNodes == {"A", "B", "C", "D"}
Payloads == {"None", "p"}
Weights == {"None", "w"}
\* Largest total number of adjacency entries built by the mutation specification.
MaxEdges == 3
\* Identifiers and largest number of adjacency entries of the specification
\* with payloads and weights.
DataNodes == {"A", "B"}
MaxDataEdges == 2
\* Largest total number of adjacency entries built before a single traversal.
MaxTravEdges == 4
\* Largest total number of adjacency entries built before interleaved traversals.
MaxInterEdges == 3

\* Generator handles.
Gens == {"g1", "g2"}

\* Edges the callers of the single-traversal specification add: the diamond
\* A->B, A->C, B->D, C->D of the demo, back edges closing cycles, a self-loop
\* and cross edges; repeating a pair gives parallel entries.
TravEdges ==
    {<<"A", "B">>, <<"A", "C">>, <<"B", "D">>, <<"C", "D">>,
     <<"D", "A">>, <<"B", "A">>, <<"B", "B">>, <<"C", "B">>,
     <<"C", "A">>, <<"D", "C">>}
\* Edges the callers of the interleaving specification add.
InterEdges ==
    {<<"A", "B">>, <<"A", "C">>, <<"B", "C">>, <<"C", "A">>, <<"B", "A">>,
     <<"C", "B">>, <<"B", "B">>}

-----------------------------------------------------------------------------
\* Sequence helpers.

Range(s) == {s[i] : i \in 1..Len(s)}

NoDup(s) == \A i, j \in 1..Len(s) : s[i] = s[j] => i = j

Reverse(s) == [i \in 1..Len(s) |-> s[Len(s) + 1 - i]]

IndexOf(s, x) == CHOOSE i \in 1..Len(s) : s[i] = x

\* dict.get(n, []) on the adjacency dict a.
Get(a, n) == IF n \in DOMAIN a THEN a[n] ELSE <<>>

\* dict[k] = v on a dict modelled as a function.
Put(f, k, v) == [x \in DOMAIN f \cup {k} |-> IF x = k THEN v ELSE f[x]]

-----------------------------------------------------------------------------
\* The graph object's fields as one record.

Self == [adj_keys |-> adj_keys, adj |-> adj, node_data |-> node_data,
         edge_weights |-> edge_weights]

SetSelf(g) ==
    /\ adj_keys' = g.adj_keys
    /\ adj' = g.adj
    /\ node_data' = g.node_data
    /\ edge_weights' = g.edge_weights

TotalEdges(g) ==
    LET RECURSIVE Sum(_)
        Sum(i) == IF i > Len(g.adj_keys) THEN 0
                  ELSE Len(g.adj[g.adj_keys[i]]) + Sum(i + 1)
    IN Sum(1)

-----------------------------------------------------------------------------
\* SortableDigraph

\* Faulty variant: the payload is stored outside the "not in self.adj" branch.
add_node_overwrite(g, node, data) ==
    IF node \notin DOMAIN g.adj
    THEN [g EXCEPT !.adj_keys = Append(@, node),
                   !.adj = Put(@, node, <<>>),
                   !.node_data = Put(@, node, data)]
    ELSE [g EXCEPT !.node_data = Put(@, node, data)]

add_node(g, node, data) ==
    IF node \notin DOMAIN g.adj
    THEN [g EXCEPT !.adj_keys = Append(@, node),
                   !.adj = Put(@, node, <<>>),
                   !.node_data = Put(@, node, data)]
    ELSE g

\* Faulty variant: v is inserted before u.
add_edge_swapped(g, u, v, edge_weight) ==
    LET g1 == add_node(g, v, "None")
        g2 == add_node(g1, u, "None")
    IN [g2 EXCEPT !.adj = Put(@, u, Append(@[u], v)),
                  !.edge_weights = Put(@, <<u, v>>, edge_weight)]

add_edge(g, u, v, edge_weight) ==
    LET g1 == add_node(g, u, "None")
        g2 == add_node(g1, v, "None")
    IN [g2 EXCEPT !.adj = Put(@, u, Append(@[u], v)),
                  !.edge_weights = Put(@, <<u, v>>, edge_weight)]

get_node_value(g, node) ==
    IF node \in DOMAIN g.node_data THEN g.node_data[node] ELSE "None"

get_edge_weight(g, u, v) ==
    IF <<u, v>> \in DOMAIN g.edge_weights THEN g.edge_weights[<<u, v>>] ELSE "None"

successors(g, node) == Get(g.adj, node)

predecessors(g, node) ==
    SelectSeq(g.adj_keys, LAMBDA u : node \in Range(g.adj[u]))

get_nodes(g) == g.adj_keys

\* The nested function visit of topsort; st is [visited, result].
RECURSIVE visit(_, _, _)
visit(a, node, st) ==
    IF node \in st.visited THEN st
    ELSE LET nbrs == Get(a, node)
             RECURSIVE Loop(_, _)
             Loop(i, s) == IF i > Len(nbrs) THEN s
                           ELSE Loop(i + 1, visit(a, nbrs[i], s))
             s1 == Loop(1, [st EXCEPT !.visited = @ \cup {node}])
         IN [s1 EXCEPT !.result = Append(@, node)]

\* Faulty variant: the result is returned without being reversed.
topsort_unreversed(g) ==
    LET RECURSIVE Roots(_, _)
        Roots(i, s) == IF i > Len(g.adj_keys) THEN s
                       ELSE Roots(i + 1, visit(g.adj, g.adj_keys[i], s))
    IN Roots(1, [visited |-> {}, result |-> <<>>]).result

\* Faulty variant: only the first key is used as a root.
topsort_first_root(g) ==
    IF g.adj_keys = <<>> THEN <<>>
    ELSE Reverse(visit(g.adj, g.adj_keys[1], [visited |-> {}, result |-> <<>>]).result)

topsort(g) ==
    LET RECURSIVE Roots(_, _)
        Roots(i, s) == IF i > Len(g.adj_keys) THEN s
                       ELSE Roots(i + 1, visit(g.adj, g.adj_keys[i], s))
    IN Reverse(Roots(1, [visited |-> {}, result |-> <<>>]).result)

-----------------------------------------------------------------------------
\* DAG

\* DAG._has_path; the visited set is shared by the whole recursion, so the
\* result carries it: [found, visited].
RECURSIVE has_path(_, _, _, _)
has_path(a, start, end, visited) ==
    IF start = end THEN [found |-> TRUE, visited |-> visited]
    ELSE LET nbrs == Get(a, start)
             RECURSIVE Loop(_, _)
             Loop(i, vis) ==
                 IF i > Len(nbrs) THEN [found |-> FALSE, visited |-> vis]
                 ELSE IF nbrs[i] \notin vis
                      THEN LET r == has_path(a, nbrs[i], end, vis)
                           IN IF r.found THEN r ELSE Loop(i + 1, r.visited)
                      ELSE Loop(i + 1, vis)
         IN Loop(1, visited \cup {start})

\* Faulty variant: the path is searched from u to v instead of from v to u.
DAG_add_edge_wrong_direction(g, u, v, edge_weight) ==
    IF has_path(g.adj, u, v, {}).found
    THEN [raised |-> TRUE, g |-> g]
    ELSE [raised |-> FALSE, g |-> add_edge(g, u, v, edge_weight)]

\* Faulty variant: the endpoints are created before the cycle check.
DAG_add_edge_nodes_first(g, u, v, edge_weight) ==
    LET g2 == add_node(add_node(g, u, "None"), v, "None")
    IN IF has_path(g2.adj, v, u, {}).found
       THEN [raised |-> TRUE, g |-> g2]
       ELSE [raised |-> FALSE, g |-> add_edge(g2, u, v, edge_weight)]

\* Faulty variant: only a direct edge v -> u is looked for.
DAG_add_edge_direct_only(g, u, v, edge_weight) ==
    IF u = v \/ u \in Range(Get(g.adj, v))
    THEN [raised |-> TRUE, g |-> g]
    ELSE [raised |-> FALSE, g |-> add_edge(g, u, v, edge_weight)]

\* DAG.add_edge: raised tells whether ValueError was raised, g is the graph
\* the call leaves behind.
DAG_add_edge(g, u, v, edge_weight) ==
    IF has_path(g.adj, v, u, {}).found
    THEN [raised |-> TRUE, g |-> g]
    ELSE [raised |-> FALSE, g |-> add_edge(g, u, v, edge_weight)]

-----------------------------------------------------------------------------
\* TraversableDigraph: the generator objects returned by dfs() and bfs().
\* A generator's record holds the locals of its frames between two next()
\* calls: start, visited, the stack of nested dfs frames (node and position
\* in its adjacency list), the neighbor just yielded (pending), and for bfs
\* the queue, the node just yielded (cur) and first; out is the sequence its
\* consumer has received so far.

NewGen(kind, start) ==
    [kind |-> kind, status |-> "created", start |-> start, visited |-> {},
     stack |-> <<>>, pending |-> "None", queue |-> <<>>, cur |-> "None",
     first |-> TRUE, out |-> <<>>]

\* No generator object.
Idle ==
    [kind |-> "none", status |-> "done", start |-> "None", visited |-> {},
     stack |-> <<>>, pending |-> "None", queue |-> <<>>, cur |-> "None",
     first |-> TRUE, out |-> <<>>]

\* dfs, lines 77-81: the default start; an empty graph ends the generator.
dfs_begin(keys, g) ==
    IF g.start = "None"
    THEN IF keys # <<>> THEN [g EXCEPT !.start = keys[1]]
         ELSE [g EXCEPT !.status = "done"]
    ELSE g

\* Faulty variant: the node a dfs frame starts at is yielded as well.
dfs_enter_yielding(g, node) ==
    IF node \in g.visited THEN g
    ELSE [g EXCEPT !.visited = @ \cup {node},
                   !.stack = Append(@, [node |-> node, i |-> 1]),
                   !.out = Append(@, node)]

\* dfs, lines 86-89: a (nested) dfs call on node: return if visited, else
\* mark it and start iterating its adjacency list.
dfs_enter(g, node) ==
    IF node \in g.visited THEN g
    ELSE [g EXCEPT !.visited = @ \cup {node},
                   !.stack = Append(@, [node |-> node, i |-> 1])]

\* dfs, lines 91-94: run the innermost frame's for loop up to the next yield;
\* a frame whose list is exhausted returns to its caller.
RECURSIVE dfs_run(_, _)
dfs_run(a, g) ==
    IF g.stack = <<>> THEN [g EXCEPT !.status = "done"]
    ELSE LET d == Len(g.stack)
             top == g.stack[d]
             nbrs == Get(a, top.node)
         IN IF top.i > Len(nbrs)
            THEN dfs_run(a, [g EXCEPT !.stack = SubSeq(@, 1, d - 1)])
            ELSE LET nb == nbrs[top.i]
                     g1 == [g EXCEPT !.stack[d].i = @ + 1]
                 IN IF nb \notin g.visited
                    THEN [g1 EXCEPT !.status = "suspended",
                                    !.pending = nb,
                                    !.out = Append(@, nb)]
                    ELSE dfs_run(a, g1)

\* One next() on a dfs generator.
dfs_next(G, g) ==
    IF g.status = "created"
    THEN LET g1 == dfs_begin(G.adj_keys, g)
         IN IF g1.status = "done" THEN g1
            ELSE dfs_run(G.adj, dfs_enter(g1, g1.start))
    ELSE dfs_run(G.adj, dfs_enter([g EXCEPT !.pending = "None"], g.pending))

\* Faulty variant: a node is marked visited when it is dequeued, not when enqueued.
bfs_expand_mark_at_dequeue(a, g, node) ==
    LET nbrs == Get(a, node)
        RECURSIVE Loop(_, _)
        Loop(i, h) ==
            IF i > Len(nbrs) THEN h
            ELSE IF nbrs[i] \notin h.visited
                 THEN Loop(i + 1, [h EXCEPT !.queue = Append(@, nbrs[i])])
                 ELSE Loop(i + 1, h)
    IN Loop(1, [g EXCEPT !.visited = @ \cup {node}])

\* bfs, lines 115-118: enqueue the unvisited neighbors of node.
bfs_expand(a, g, node) ==
    LET nbrs == Get(a, node)
        RECURSIVE Loop(_, _)
        Loop(i, h) ==
            IF i > Len(nbrs) THEN h
            ELSE IF nbrs[i] \notin h.visited
                 THEN Loop(i + 1, [h EXCEPT !.visited = @ \cup {nbrs[i]},
                                            !.queue = Append(@, nbrs[i])])
                 ELSE Loop(i + 1, h)
    IN Loop(1, g)

\* bfs, lines 109-118: the while loop up to the next yield.
RECURSIVE bfs_loop(_, _)
bfs_loop(a, g) ==
    IF g.queue = <<>> THEN [g EXCEPT !.status = "done"]
    ELSE LET node == Head(g.queue)
             g1 == [g EXCEPT !.queue = Tail(@)]
         IN IF ~g1.first
            THEN [g1 EXCEPT !.status = "suspended",
                            !.cur = node,
                            !.out = Append(@, node)]
            ELSE bfs_loop(a, bfs_expand(a, [g1 EXCEPT !.first = FALSE], node))

\* One next() on a bfs generator.
bfs_next(G, g) ==
    IF g.status = "created"
    THEN IF G.adj_keys = <<>> THEN [g EXCEPT !.status = "done"]
         ELSE LET s == IF g.start = "None" THEN G.adj_keys[1] ELSE g.start
              IN bfs_loop(G.adj, [g EXCEPT !.start = s,
                                           !.visited = {s},
                                           !.queue = <<s>>])
    ELSE bfs_loop(G.adj, bfs_expand(G.adj, g, g.cur))

gen_step(G, g) == IF g.kind = "dfs" THEN dfs_next(G, g) ELSE bfs_next(G, g)

\* Faulty variant: the visited set is one object shared by every generator (a
\* default argument or an attribute of the graph).
gen_next_shared_visited(G, gs, h) ==
    LET live == {k \in DOMAIN gs : gs[k].kind # "none" /\ gs[k].status # "created"}
        shared == UNION {gs[k].visited : k \in live}
        g2 == gen_step(G, [gs[h] EXCEPT !.visited = @ \cup shared])
    IN [k \in DOMAIN gs |->
          IF k = h THEN g2
          ELSE IF k \in live THEN [gs[k] EXCEPT !.visited = g2.visited]
          ELSE gs[k]]

\* next(h): only generator h advances; its visited set, stack and queue are
\* its own.
gen_next(G, gs, h) == [gs EXCEPT ![h] = gen_step(G, gs[h])]

-----------------------------------------------------------------------------
\* History helpers.

FirstSeen(s, x) == IF x \in Range(s) THEN s ELSE Append(s, x)

NoGens == [h \in Gens |-> Idle]

-----------------------------------------------------------------------------
\* Calls on the graph object.

Init ==
    /\ cls \in {"TraversableDigraph", "DAG"}
    /\ adj_keys = <<>>
    /\ adj = <<>>
    /\ node_data = <<>>
    /\ edge_weights = <<>>
    /\ ret = [op |-> "__init__", args |-> <<>>, out |-> "None"]
    /\ seen = <<>>
    /\ created = <<>>
    /\ gens = NoGens

\* g.add_node(node, data)
AddNode(node, data) ==
    /\ SetSelf(add_node(Self, node, data))
    /\ ret' = [op |-> "add_node", args |-> <<node, data>>, out |-> "None"]
    /\ seen' = FirstSeen(seen, node)
    /\ created' = FirstSeen(created, node)
    /\ UNCHANGED <<cls, gens>>

\* g.add_edge(u, v, w), dispatched on the object's class; limit caps the
\* number of adjacency entries an accepted call may build.
AddEdge(u, v, w, limit) ==
    LET r == IF cls = "DAG" THEN DAG_add_edge(Self, u, v, w)
             ELSE [raised |-> FALSE, g |-> add_edge(Self, u, v, w)]
    IN /\ r.raised \/ TotalEdges(Self) < limit
       /\ SetSelf(r.g)
       /\ ret' = [op |-> "add_edge", args |-> <<u, v, w>>,
                  out |-> IF r.raised THEN "ValueError" ELSE "None"]
       /\ seen' = FirstSeen(FirstSeen(seen, u), v)
       /\ created' = IF r.raised THEN created
                     ELSE FirstSeen(FirstSeen(created, u), v)
       /\ UNCHANGED <<cls, gens>>

\* g.topsort()
TopSort ==
    /\ ret' = [op |-> "topsort", args |-> <<>>, out |-> topsort(Self)]
    /\ UNCHANGED <<cls, adj_keys, adj, node_data, edge_weights, seen, created, gens>>

\* g.get_nodes()
GetNodes ==
    /\ ret' = [op |-> "get_nodes", args |-> <<>>, out |-> get_nodes(Self)]
    /\ UNCHANGED <<cls, adj_keys, adj, node_data, edge_weights, seen, created, gens>>

Next ==
    \/ \E n \in Nodes : AddNode(n, "None")
    \/ \E u, v \in Nodes : AddEdge(u, v, "None", MaxEdges)
    \/ TopSort
    \/ GetNodes

\* Calls that build the structure of a graph over three identifiers, and the
\* queries on it.
Spec == Init /\ [][Next]_vars

NextData ==
    \/ \E n \in DataNodes, d \in Payloads : AddNode(n, d)
    \/ \E u, v \in DataNodes, w \in Weights : AddEdge(u, v, w, MaxDataEdges)

\* Calls with payloads and weights, over two identifiers.
SpecData == Init /\ [][NextData]_vars

\* h = g.dfs(start): the generator object is created; no code of dfs runs
\* before the first next().
Dfs(h, start) ==
    /\ gens[h].kind = "none"
    /\ gens' = [gens EXCEPT ![h] = NewGen("dfs", start)]
    /\ ret' = [op |-> "dfs", args |-> <<start>>, out |-> h]
    /\ UNCHANGED <<cls, adj_keys, adj, node_data, edge_weights, seen, created>>

\* h = g.bfs(start)
Bfs(h, start) ==
    /\ gens[h].kind = "none"
    /\ gens' = [gens EXCEPT ![h] = NewGen("bfs", start)]
    /\ ret' = [op |-> "bfs", args |-> <<start>>, out |-> h]
    /\ UNCHANGED <<cls, adj_keys, adj, node_data, edge_weights, seen, created>>

\* next(h) on a generator that is not exhausted: it runs to its next yield
\* or to its end.
NextCall(h) ==
    /\ gens[h].kind # "none"
    /\ gens[h].status # "done"
    /\ gens' = gen_next(Self, gens, h)
    /\ ret' = [op |-> "next", args |-> <<h>>,
               out |-> IF gens'[h].status = "done" THEN "StopIteration"
                       ELSE gens'[h].out[Len(gens'[h].out)]]
    /\ UNCHANGED <<cls, adj_keys, adj, node_data, edge_weights, seen, created>>

\* The consumer drops generator h, exhausted or not.
Close(h) ==
    /\ gens[h].kind # "none"
    /\ gens' = [gens EXCEPT ![h] = Idle]
    /\ ret' = [op |-> "close", args |-> <<h>>, out |-> "None"]
    /\ UNCHANGED <<cls, adj_keys, adj, node_data, edge_weights, seen, created>>

\* add_edge while no traversal is in progress: callers do not mutate the
\* graph under a live generator.
AddEdgeBetweenTraversals(u, v, limit) ==
    /\ gens = NoGens
    /\ AddEdge(u, v, "None", limit)

InitTrav ==
    /\ Init
    /\ cls = "TraversableDigraph"

Starts == TravNodes \cup {"None"}

NextTrav ==
    \/ \E e \in TravEdges : AddEdgeBetweenTraversals(e[1], e[2], MaxTravEdges)
    \/ \E s \in Starts : Dfs("g1", s)
    \/ \E s \in Starts : Bfs("g1", s)
    \/ NextCall("g1")
    \/ Close("g1")

\* One traversal at a time over graphs of four identifiers.
SpecTrav == InitTrav /\ [][NextTrav]_vars

InterStarts == {"None", "A", "B"}

NextInter ==
    \/ \E e \in InterEdges : AddEdgeBetweenTraversals(e[1], e[2], MaxInterEdges)
    \/ \E h \in Gens, s \in InterStarts : Dfs(h, s)
    \/ \E h \in Gens, s \in InterStarts : Bfs(h, s)
    \/ \E h \in Gens : NextCall(h)
    \/ \E h \in Gens : Close(h)

\* Two generators whose next() calls interleave in any order.
SpecInter == InitTrav /\ [][NextInter]_vars

-----------------------------------------------------------------------------
\* Graph-theoretic notions the claims are stated with, defined on sets and
\* independently of the traversals of the code.

Succ(a, n) == Range(Get(a, n))

\* Nodes reachable from n by a path of one or more edges.
ReachPlus(a, n) ==
    LET RECURSIVE Grow(_)
        Grow(S) == LET T == S \cup UNION {Succ(a, m) : m \in S}
                   IN IF T = S THEN S ELSE Grow(T)
    IN Grow(Succ(a, n))

\* Nodes reachable from n by a path of zero or more edges.
ReachStar(a, n) == {n} \cup ReachPlus(a, n)

Acyclic(a) == \A n \in DOMAIN a : n \notin ReachPlus(a, n)

IsPermutation(s, t) == Len(s) = Len(t) /\ NoDup(s) /\ Range(s) = Range(t)

GraphUnchanged ==
    /\ adj_keys' = adj_keys
    /\ adj' = adj
    /\ node_data' = node_data
    /\ edge_weights' = edge_weights

-----------------------------------------------------------------------------
\* C1: in a DAG, after any sequence of add_node and add_edge calls, accepted
\* or rejected, no node is reachable from itself via one or more edges.
C1_DagHasNoCycle == cls = "DAG" => Acyclic(adj)

\* A DAG holding a path of two edges has just rejected the edge closing it.
C1_Witness ==
    /\ cls = "DAG"
    /\ ret.op = "add_edge" /\ ret.out = "ValueError"
    /\ ret.args[1] # ret.args[2]
    /\ ret.args[1] \notin Succ(adj, ret.args[2])

\* C2: a DAG.add_edge call that fails with the cycle error leaves adjacency,
\* payloads and weights (hence successors and predecessors) as they were and
\* creates no node; and add_edge(v, u) right after a successful
\* add_edge(u, v) fails.
C2_RejectedEdgeChangesNothing ==
    [][ /\ (ret'.op = "add_edge" /\ ret'.out = "ValueError") =>
            /\ GraphUnchanged
            /\ \A n \in Nodes :
                  /\ successors(Self, n)' = successors(Self, n)
                  /\ predecessors(Self, n)' = predecessors(Self, n)
        /\ ( /\ cls = "DAG"
             /\ ret.op = "add_edge" /\ ret.out = "None"
             /\ ret'.op = "add_edge"
             /\ ret'.args[1] = ret.args[2] /\ ret'.args[2] = ret.args[1] ) =>
            ret'.out = "ValueError"
      ]_vars

\* The reverse of a stored edge has just been rejected, in a DAG of three
\* nodes.
C2_Witness ==
    /\ ret.op = "add_edge" /\ ret.out = "ValueError"
    /\ ret.args[1] # ret.args[2]
    /\ <<ret.args[2], ret.args[1]>> \in DOMAIN edge_weights
    /\ <<ret.args[1], ret.args[2]>> \notin DOMAIN edge_weights
    /\ Len(adj_keys) = 3

\* C3: DAG.add_edge(u, v) is rejected exactly when u is reachable from v by
\* zero or more edges; otherwise u and v are created if unknown (payload
\* None), v is appended to u's adjacency list, the weight of (u, v) is set
\* and nothing else changes.
C3_RejectedIffReachable ==
    [][ (cls = "DAG" /\ ret'.op = "add_edge") =>
          LET u == ret'.args[1]
              v == ret'.args[2]
              w == ret'.args[3]
              keys == FirstSeen(FirstSeen(adj_keys, u), v)
          IN /\ (ret'.out = "ValueError") <=> (u \in ReachStar(adj, v))
             /\ ret'.out # "ValueError" =>
                  /\ ret'.out = "None"
                  /\ adj_keys' = keys
                  /\ DOMAIN adj' = Range(keys)
                  /\ \A n \in Range(keys) :
                        adj'[n] = IF n = u THEN Append(Get(adj, u), v)
                                  ELSE Get(adj, n)
                  /\ DOMAIN node_data' = Range(keys)
                  /\ \A n \in Range(keys) :
                        node_data'[n] = IF n \in DOMAIN node_data
                                        THEN node_data[n] ELSE "None"
                  /\ DOMAIN edge_weights' = DOMAIN edge_weights \cup {<<u, v>>}
                  /\ \A e \in DOMAIN edge_weights' :
                        edge_weights'[e] = IF e = <<u, v>> THEN w
                                           ELSE edge_weights[e]
      ]_vars

\* A DAG of three nodes has just accepted its third edge.
C3_Witness ==
    /\ cls = "DAG"
    /\ ret.op = "add_edge" /\ ret.out = "None"
    /\ TotalEdges(Self) = 3
    /\ Len(adj_keys) = 3

\* C4: on an acyclic graph topsort() returns every known node exactly once,
\* with u before v for every stored edge (u, v).
C4_TopsortIsTopologicalOrder ==
    (ret.op = "topsort" /\ Acyclic(adj)) =>
        /\ IsPermutation(ret.out, adj_keys)
        /\ \A u \in DOMAIN adj : \A v \in Succ(adj, u) :
              IndexOf(ret.out, u) < IndexOf(ret.out, v)

\* topsort() was called on an acyclic graph of three nodes and at least two
\* edges whose topological order is not its insertion order.
C4_Witness ==
    /\ ret.op = "topsort" /\ Acyclic(adj)
    /\ Len(adj_keys) = 3 /\ TotalEdges(Self) >= 2
    /\ ret.out # adj_keys

\* C5 as stated: get_nodes() returns every identifier passed to add_node or
\* add_edge, once each, in first-seen order.
C5_Original == get_nodes(Self) = seen

\* C5 as amended: get_nodes() returns every identifier passed to add_node or
\* to an accepted add_edge, once each, in the order in which those calls
\* first presented them; a rejected DAG.add_edge contributes no identifier.
C5_GetNodesIsCreationOrder ==
    /\ get_nodes(Self) = created
    /\ NoDup(get_nodes(Self))
    /\ ret.op = "get_nodes" => ret.out = created

\* get_nodes() was called on a DAG that rejected an edge naming an identifier
\* which was unknown then.
C5_Witness ==
    /\ ret.op = "get_nodes"
    /\ cls = "DAG"
    /\ Len(created) >= 2
    /\ seen # created

\* C8: add_node on a known identifier changes neither adjacency, payloads nor
\* weights; the payload of the first creation is kept.
C8_AddNodeOnKnownIsNoOp ==
    [][ (ret'.op = "add_node" /\ ret'.args[1] \in DOMAIN adj) => GraphUnchanged ]_vars

\* add_node was called on a known identifier with a payload other than the
\* stored one.
C8_Witness ==
    /\ ret.op = "add_node"
    /\ ret.args[1] \in DOMAIN node_data
    /\ ret.args[2] # node_data[ret.args[1]]

\* C9: on the base digraph topsort() returns a permutation of get_nodes() for
\* every graph, cyclic ones included.
C9_TopsortIsPermutation ==
    (cls = "TraversableDigraph" /\ ret.op = "topsort") =>
        IsPermutation(ret.out, get_nodes(Self))

\* topsort() was called on a base digraph of three nodes holding a cycle.
C9_Witness ==
    /\ cls = "TraversableDigraph"
    /\ ret.op = "topsort"
    /\ ~Acyclic(adj)
    /\ Len(adj_keys) = 3
    /\ Len(ret.out) = 3

-----------------------------------------------------------------------------
\* Notions for the traversal claims.

\* Length of a shortest path from s to n (n reachable from s).
Dist(a, s, n) ==
    LET RECURSIVE D(_, _, _)
        D(frontier, done, k) ==
            IF n \in frontier THEN k
            ELSE IF frontier = {} THEN -1
            ELSE D((UNION {Succ(a, m) : m \in frontier}) \ (done \cup frontier),
                   done \cup frontier, k + 1)
    IN D({s}, {}, 0)

IsPrefix(p, q) == Len(p) <= Len(q) /\ SubSeq(q, 1, Len(p)) = p

\* The adjacency of the demo: A->B, A->C, B->D, C->D.
Diamond ==
    /\ DOMAIN adj = {"A", "B", "C", "D"}
    /\ adj["A"] = <<"B", "C">>
    /\ adj["B"] = <<"D">>
    /\ adj["C"] = <<"D">>
    /\ adj["D"] = <<>>

\* What the consumer of kind(start) receives when it runs the generator
\* alone, from scratch, to exhaustion on graph G.
RunAlone(G, kind, start) ==
    LET RECURSIVE Go(_)
        Go(g) == IF g.status = "done" THEN g.out ELSE Go(gen_step(G, g))
    IN Go(NewGen(kind, start))

\* C6: dfs(start) yields nodes reachable from start by one or more edges and
\* other than start, never one twice, and has yielded all of them when it
\* ends; so it ends after at most that many yields, cycles, self-loops and
\* parallel edges notwithstanding.  On the demo's graph dfs("A") is B, D, C.
C6_DfsYieldsReachableOnce ==
    \A h \in Gens :
        LET g == gens[h]
            R == ReachPlus(adj, g.start) \ {g.start}
        IN (g.kind = "dfs" /\ g.status # "created") =>
              /\ NoDup(g.out)
              /\ g.start \notin Range(g.out)
              /\ Range(g.out) \subseteq R
              /\ g.status = "suspended" => g.out # <<>>
              /\ g.status = "done" => Range(g.out) = R
              /\ (g.status = "done" /\ Diamond /\ g.start = "A") =>
                    g.out = <<"B", "D", "C">>

\* A dfs has ended on a graph where its start lies on a cycle and a node it
\* yielded has two predecessors.
C6_Witness ==
    LET g == gens["g1"]
    IN /\ g.kind = "dfs" /\ g.status = "done"
       /\ g.start \in ReachPlus(adj, g.start)
       /\ Len(g.out) >= 2
       /\ \E n \in Range(g.out) : Len(predecessors(Self, n)) >= 2

\* C7: bfs(start) yields the nodes reachable from start other than start,
\* never one twice and in order of non-decreasing distance from start, all of
\* them by the time it ends; no node enters the queue twice (the start, the
\* nodes yielded and the nodes queued are pairwise distinct).  On the demo's
\* graph bfs("A") is B, C, D.
C7_BfsLevelOrder ==
    \A h \in Gens :
        LET g == gens[h]
            R == ReachPlus(adj, g.start) \ {g.start}
        IN (g.kind = "bfs" /\ g.status # "created") =>
              /\ NoDup(g.out)
              /\ Range(g.out) \subseteq R
              /\ NoDup(<<g.start>> \o g.out \o g.queue)
              /\ Range(g.queue) \subseteq g.visited
              /\ \A i, j \in 1..Len(g.out) :
                    i < j => Dist(adj, g.start, g.out[i]) <= Dist(adj, g.start, g.out[j])
              /\ g.status = "done" => Range(g.out) = R
              /\ (g.status = "done" /\ Diamond /\ g.start = "A") =>
                    g.out = <<"B", "C", "D">>

\* bfs("A") has ended on the demo's graph, where D is reached from B and C.
C7_Witness ==
    LET g == gens["g1"]
    IN /\ g.kind = "bfs" /\ g.status = "done"
       /\ Diamond
       /\ g.out = <<"B", "C", "D">>

\* What every live generator has delivered is a prefix of its run alone, and
\* the whole of it once it has ended.
C10_AsIfAlone ==
    \A h \in Gens :
        LET g == gens[h]
            alone == RunAlone(Self, g.kind, g.start)
        IN g.kind # "none" =>
              /\ IsPrefix(g.out, alone)
              /\ g.status = "done" => g.out = alone

\* C10: generators over the same unmodified graph, advanced in any
\* interleaving or dropped partway, each deliver the sequence of a run alone,
\* and no step of a traversal changes adjacency, payloads or weights.
C10_TraversalsAreIndependent ==
    /\ []C10_AsIfAlone
    /\ [][gens' # gens => GraphUnchanged]_vars

\* g1 has just ended after two yields while g2, a traversal of the same kind
\* from the same start, is suspended after its first yield.
C10_Witness ==
    /\ ret.op = "next" /\ ret.args = <<"g1">> /\ ret.out = "StopIteration"
    /\ gens["g1"].status = "done" /\ Len(gens["g1"].out) >= 2
    /\ gens["g2"].kind = gens["g1"].kind
    /\ gens["g2"].start = gens["g1"].start
    /\ gens["g2"].status = "suspended" /\ Len(gens["g2"].out) = 1

=============================================================================
